---- MODULE Spec2Model ----
(***************************************************************************)
(* Model of the NCDOT ingestor (main.go): one run fetches the feed,        *)
(* filters the records by incident type, resolves the weather for each     *)
(* relevant record, and upserts it into the table unified_incidents with   *)
(* one INSERT ... ON CONFLICT (source, source_id) DO UPDATE statement.     *)
(*                                                                         *)
(* Representation.  A Go string the program inspects (the start time, the  *)
(* source id) is a sequence of one-character strings; a string it only     *)
(* copies is a TLA+ string.  A float64 coordinate is an integer number of  *)
(* 1/10000 degrees.  A time.Time is its number of seconds since the Unix   *)
(* epoch.  A nil pointer is the empty sequence and a non-nil pointer the   *)
(* one-element sequence.  sql.NullInt32 and sql.NullString are records     *)
(* with a Valid field, as in database/sql.  Of the 29 fields of Incident   *)
(* the model keeps the seven that saveToUnifiedDB reads; the others are    *)
(* only copied into the details blob.  Temperatures are within int32, so   *)
(* the int32 conversion of line 161 preserves them.                        *)
(***************************************************************************)
EXTENDS Integers, Sequences, FiniteSets, TLC

VARIABLES
    rows,            \* table unified_incidents, in insertion order
    now,             \* the wall clock at its last reading, Unix seconds
    binary,          \* per ingester process: the revision of the program it runs
    pc,              \* per ingester process: position in main
    feedStatus,      \* resp.StatusCode of the feed response (0: no response)
    allIncidents,    \* the decoded feed
    idx,             \* position of the range loop in allIncidents (1-based)
    stmt,            \* parameters $1..$12 built by saveToUnifiedDB, <<>> outside it
    points,          \* stage-1 weather response for the current record, <<>> if none
    hourly,          \* stage-2 weather response for the current record, <<>> if none
    weatherErr,      \* err returned by getWeatherForIncident for the current record
    incidentsSaved,  \* the success counter of main
    runs,            \* number of runs each ingester has started
    weatherCalls,    \* calls of getWeatherForIncident in the current run
    storeCalls,      \* calls of db.Exec in the current run
    visited,         \* per record of the batch, in order: what the loop did with it
    lastStmt,        \* per source_id: the parameters of the statement the store applied last
    lastHit          \* per source_id: what that statement met in the table

vars == <<rows, now, binary, pc, feedStatus, allIncidents, idx, stmt, points, hourly,
          weatherErr, incidentsSaved, runs, weatherCalls, storeCalls, visited, lastStmt,
          lastHit>>

----------------------------------------------------------------------------
(* Bounds *)

MaxBatch == 3       \* longest feed of the pipeline specification
MaxRuns == 2        \* runs of one ingester in the store-level specification
MaxTicks == 1       \* seconds that may pass during the model's runs
MaxConcBatch == 1   \* longest feed of each of the two concurrent ingesters

----------------------------------------------------------------------------
(* strconv.Itoa *)

DigitChars == <<"0", "1", "2", "3", "4", "5", "6", "7", "8", "9">>

RECURSIVE ItoaNat(_)
ItoaNat(n) ==
    IF n < 10 THEN <<DigitChars[n + 1]>>
    ELSE ItoaNat(n \div 10) \o <<DigitChars[(n % 10) + 1]>>

Itoa(n) == IF n < 0 THEN <<"-">> \o ItoaNat(0 - n) ELSE ItoaNat(n)

----------------------------------------------------------------------------
(* time.Parse(time.RFC3339, s): layout 2006-01-02T15:04:05Z07:00, without  *)
(* fractional seconds.  The result is [ok, t]: t is the instant in Unix    *)
(* seconds when ok.                                                        *)

IsDigit(c) == \E i \in 1..10 : DigitChars[i] = c

DigitVal(c) == (CHOOSE i \in 1..10 : DigitChars[i] = c) - 1

AllDigits(s, from, to) == \A i \in from..to : IsDigit(s[i])

RECURSIVE Atoi(_, _, _)
Atoi(s, from, to) ==
    IF from > to THEN 0
    ELSE Atoi(s, from, to - 1) * 10 + DigitVal(s[to])

IsLeap(y) == (y % 4 = 0) /\ ((y % 100 # 0) \/ (y % 400 = 0))

DaysIn(y, m) ==
    IF m = 2 THEN (IF IsLeap(y) THEN 29 ELSE 28)
    ELSE IF m \in {4, 6, 9, 11} THEN 30 ELSE 31

\* Days from 1970-01-01 to the civil date y-m-d.
DaysFromCivil(y, m, d) ==
    LET yy  == IF m <= 2 THEN y - 1 ELSE y
        era == yy \div 400
        yoe == yy - era * 400
        mp  == IF m > 2 THEN m - 3 ELSE m + 9
        doy == ((153 * mp + 2) \div 5) + d - 1
        doe == yoe * 365 + (yoe \div 4) - (yoe \div 100) + doy
    IN  era * 146097 + doe - 719468

UnixSeconds(y, m, d, hh, mi, ss, offMin) ==
    DaysFromCivil(y, m, d) * 86400 + hh * 3600 + mi * 60 + ss - offMin * 60

ParseFailed == [ok |-> FALSE, t |-> 0]

ParseRFC3339(s) ==
    IF Len(s) \notin {20, 25} THEN ParseFailed
    ELSE IF ~(/\ AllDigits(s, 1, 4) /\ s[5] = "-" /\ AllDigits(s, 6, 7) /\ s[8] = "-"
              /\ AllDigits(s, 9, 10) /\ s[11] = "T" /\ AllDigits(s, 12, 13)
              /\ s[14] = ":" /\ AllDigits(s, 15, 16) /\ s[17] = ":"
              /\ AllDigits(s, 18, 19)) THEN ParseFailed
    ELSE IF Len(s) = 20 /\ s[20] # "Z" THEN ParseFailed
    ELSE IF Len(s) = 25 /\ ~(/\ s[20] \in {"+", "-"} /\ AllDigits(s, 21, 22)
                             /\ s[23] = ":" /\ AllDigits(s, 24, 25)) THEN ParseFailed
    ELSE
        LET y  == Atoi(s, 1, 4)
            m  == Atoi(s, 6, 7)
            d  == Atoi(s, 9, 10)
            hh == Atoi(s, 12, 13)
            mi == Atoi(s, 15, 16)
            ss == Atoi(s, 18, 19)
            oh == IF Len(s) = 25 THEN Atoi(s, 21, 22) ELSE 0
            om == IF Len(s) = 25 THEN Atoi(s, 24, 25) ELSE 0
            off == IF Len(s) = 25 /\ s[20] = "-" THEN 0 - (oh * 60 + om)
                   ELSE oh * 60 + om
        IN  IF /\ m \in 1..12 /\ d \in 1..DaysIn(y, m) /\ hh \in 0..23
               /\ mi \in 0..59 /\ ss \in 0..59 /\ oh \in 0..23 /\ om \in 0..59
            THEN [ok |-> TRUE, t |-> UnixSeconds(y, m, d, hh, mi, ss, off)]
            ELSE ParseFailed

\* The parse error is dropped: the zero value stands for a failed parse.
StartTimeOrZero(startTime, clock) == ParseRFC3339(startTime).t

\* Lines 134-138: the parsed start time, or time.Now() when it does not parse.
StartTimeOrNow(startTime, clock) ==
    LET parsed == ParseRFC3339(startTime)
    IN  IF parsed.ok THEN parsed.t ELSE clock

----------------------------------------------------------------------------
(* The feed's records *)

StartZ      == <<"2","0","2","4","-","0","5","-","0","1","T","1","0",":","0","0",":","0","0","Z">>
StartOffset == <<"2","0","2","4","-","0","5","-","0","1","T","0","7",":","3","0",":","0","0","-","0","4",":","0","0">>
StartBad    == <<"n","o","t","-","a","-","d","a","t","e">>

IncidentTypes == {"Vehicle Crash", "Disabled Vehicle", "Road Closure"}

\* Where and why: the location, coordinates and reason of a record.
SiteA == [Location |-> "I-40 East near Exit 289", Latitude |-> 357800,
          Longitude |-> -786400, Reason |-> "debris"]
SiteB == [Location |-> "US-1 North at Mile 98", Latitude |-> 358512,
          Longitude |-> -786821, Reason |-> "stalled truck"]

MkIncident(id, type, start, site) ==
    [ID |-> id, IncidentType |-> type, StartTime |-> start,
     Location |-> site.Location, Latitude |-> site.Latitude,
     Longitude |-> site.Longitude, Reason |-> site.Reason]

\* Every combination of id, type, start string and site.
Incidents ==
    {MkIncident(id, type, start, site) :
        id \in {1, 2}, type \in IncidentTypes,
        start \in {StartZ, StartBad}, site \in {SiteA, SiteB}}

\* A small feed: a crash with a well-formed start, a disabled vehicle with
\* an unparseable start, and a record to be filtered out.
FeedSample ==
    {MkIncident(1, "Vehicle Crash", StartZ, SiteA),
     MkIncident(2, "Disabled Vehicle", StartBad, SiteB),
     MkIncident(1, "Road Closure", StartZ, SiteA)}

\* Two sightings of incident 1 that differ in every other field, and a
\* record to be filtered out.
ConcSample ==
    {MkIncident(1, "Vehicle Crash", StartZ, SiteA),
     MkIncident(1, "Disabled Vehicle", StartOffset, SiteB),
     MkIncident(1, "Road Closure", StartZ, SiteA)}

SeqsUpTo(S, n) == UNION {[1..k -> S] : k \in 0..n}

SourceIDs == {Itoa(i.ID) : i \in Incidents \cup FeedSample \cup ConcSample}

----------------------------------------------------------------------------
(* The weather service *)

W1 == [Temperature |-> 72, WindSpeed |-> "5 mph", ShortForecast |-> "Clear", Icon |-> "skc"]
W2 == [Temperature |-> 41, WindSpeed |-> "10 mph", ShortForecast |-> "Rain", Icon |-> "rain"]

ForecastURL == "https://api.weather.gov/gridpoints/RAH/73,57/forecast/hourly"

PointsOK == [transport |-> "ok", StatusCode |-> 200, json |-> TRUE, ForecastHourly |-> ForecastURL]

PointsResponses ==
    {[transport |-> "error", StatusCode |-> 0, json |-> FALSE, ForecastHourly |-> ""],
     [transport |-> "ok", StatusCode |-> 404, json |-> TRUE, ForecastHourly |-> ForecastURL],
     [transport |-> "ok", StatusCode |-> 200, json |-> FALSE, ForecastHourly |-> ""],
     [transport |-> "ok", StatusCode |-> 200, json |-> TRUE, ForecastHourly |-> ""],
     PointsOK}

HourlyOK(periods) == [transport |-> "ok", StatusCode |-> 200, json |-> TRUE, Periods |-> periods]

HourlyResponses ==
    {[transport |-> "error", StatusCode |-> 0, json |-> FALSE, Periods |-> <<>>],
     [transport |-> "ok", StatusCode |-> 503, json |-> TRUE, Periods |-> <<W1>>],
     [transport |-> "ok", StatusCode |-> 200, json |-> FALSE, Periods |-> <<>>],
     HourlyOK(<<>>), HourlyOK(<<W1>>), HourlyOK(<<W2, W1>>)}

\* Lines 81-99: the first request; "nil" or the error it ends with.
PointsErr(pr) ==
    IF pr.transport = "error" THEN "failed to fetch NWS points data"
    ELSE IF pr.StatusCode # 200 THEN "NWS points API returned non-200 status"
    ELSE IF ~pr.json THEN "failed to unmarshal NWS points JSON"
    ELSE IF pr.ForecastHourly = "" THEN "NWS points response did not contain a forecast URL"
    ELSE "nil"

\* The status of the second answer is not looked at.
getWeatherIgnoringStatus(pr, hr) ==
    IF PointsErr(pr) # "nil"
    THEN [data |-> <<>>, err |-> PointsErr(pr), asked |-> FALSE]
    ELSE IF hr.transport = "error"
    THEN [data |-> <<>>, err |-> "failed to fetch NWS hourly data", asked |-> TRUE]
    ELSE IF ~hr.json
    THEN [data |-> <<>>, err |-> "failed to unmarshal NWS hourly JSON", asked |-> TRUE]
    ELSE IF Len(hr.Periods) > 0
    THEN [data |-> <<hr.Periods[1]>>, err |-> "nil", asked |-> TRUE]
    ELSE [data |-> <<>>, err |-> "no weather periods returned from NWS", asked |-> TRUE]

\* Lines 72-126.  pr is the answer to the first request and hr the answer
\* the second request gets if it is made.  The result is [data, err, asked]:
\* data is the *WeatherData, asked tells whether the second request was made.
getWeatherForIncident(pr, hr) ==
    IF PointsErr(pr) # "nil"
    THEN [data |-> <<>>, err |-> PointsErr(pr), asked |-> FALSE]
    ELSE IF hr.transport = "error"
    THEN [data |-> <<>>, err |-> "failed to fetch NWS hourly data", asked |-> TRUE]
    ELSE IF hr.StatusCode # 200
    THEN [data |-> <<>>, err |-> "NWS hourly API returned non-200 status", asked |-> TRUE]
    ELSE IF ~hr.json
    THEN [data |-> <<>>, err |-> "failed to unmarshal NWS hourly JSON", asked |-> TRUE]
    ELSE IF Len(hr.Periods) > 0
    THEN [data |-> <<hr.Periods[1]>>, err |-> "nil", asked |-> TRUE]
    ELSE [data |-> <<>>, err |-> "no weather periods returned from NWS", asked |-> TRUE]

----------------------------------------------------------------------------
(* saveToUnifiedDB: the statement's parameters *)

NullInt32 == [Int32 |-> 0, Valid |-> FALSE]
NullString == [String |-> "", Valid |-> FALSE]

\* Lines 130-132 and 146-167: parameters $1..$12 of the statement.
BuildStmt(incident, parsedTime, weatherData) ==
    [source |-> "NCDOT",
     source_id |-> Itoa(incident.ID),
     event_type |-> incident.IncidentType,
     address |-> incident.Location,
     latitude |-> incident.Latitude,
     longitude |-> incident.Longitude,
     timestamp |-> parsedTime,
     details |-> [raw_incident |-> incident, weather |-> weatherData],
     problem_detail |-> incident.Reason,
     weather_temp |->
        IF weatherData # <<>>
        THEN [Int32 |-> weatherData[1].Temperature, Valid |-> TRUE] ELSE NullInt32,
     weather_wind_speed |->
        IF weatherData # <<>>
        THEN [String |-> weatherData[1].WindSpeed, Valid |-> TRUE] ELSE NullString,
     weather_forecast |->
        IF weatherData # <<>>
        THEN [String |-> weatherData[1].ShortForecast, Valid |-> TRUE] ELSE NullString]

----------------------------------------------------------------------------
(* The store: the statement of lines 171-183, applied atomically *)

\* The conflict target also names event_type.
ConflictsWithType(row, s) ==
    row.source = s.source /\ row.source_id = s.source_id /\ row.event_type = s.event_type

\* The unique key of the table, the conflict target of the statement.
Conflicts(row, s) == row.source = s.source /\ row.source_id = s.source_id

\* The row the VALUES clause proposes for insertion.
NewRow(s) ==
    [source |-> s.source, source_id |-> s.source_id, event_type |-> s.event_type,
     status |-> "active", address |-> s.address, latitude |-> s.latitude,
     longitude |-> s.longitude, timestamp |-> s.timestamp, details |-> s.details,
     problem_detail |-> s.problem_detail, weather_temp |-> s.weather_temp,
     weather_wind_speed |-> s.weather_wind_speed,
     weather_forecast |-> s.weather_forecast]

\* The DO UPDATE SET clause applied to the conflicting row.
Merge(row, s) ==
    [row EXCEPT !.details = s.details,
                !.status = "active",
                !.problem_detail = s.problem_detail,
                !.weather_temp = s.weather_temp,
                !.weather_wind_speed = s.weather_wind_speed,
                !.weather_forecast = s.weather_forecast]

\* A plain INSERT into a table that has no unique key on (source, source_id).
UpsertNoConflict(table, s) == Append(table, NewRow(s))

\* ON CONFLICT ... DO NOTHING: the first sighting is never updated.
UpsertDoNothing(table, s) ==
    IF \E i \in DOMAIN table : Conflicts(table[i], s) THEN table
    ELSE Append(table, NewRow(s))

\* The update replaces the whole row, identity columns included.
UpsertReplaceAll(table, s) ==
    IF \E i \in DOMAIN table : Conflicts(table[i], s)
    THEN [i \in DOMAIN table |-> IF Conflicts(table[i], s) THEN NewRow(s) ELSE table[i]]
    ELSE Append(table, NewRow(s))

\* The update keeps a stored weather value when the new one is NULL.
UpsertKeepWeather(table, s) ==
    IF \E i \in DOMAIN table : Conflicts(table[i], s)
    THEN [i \in DOMAIN table |->
            IF Conflicts(table[i], s)
            THEN [Merge(table[i], s) EXCEPT
                    !.weather_temp =
                        IF s.weather_temp.Valid THEN s.weather_temp ELSE table[i].weather_temp,
                    !.weather_wind_speed =
                        IF s.weather_wind_speed.Valid THEN s.weather_wind_speed
                        ELSE table[i].weather_wind_speed,
                    !.weather_forecast =
                        IF s.weather_forecast.Valid THEN s.weather_forecast
                        ELSE table[i].weather_forecast]
            ELSE table[i]]
    ELSE Append(table, NewRow(s))

\* INSERT ... ON CONFLICT (source, source_id) DO UPDATE SET ...
Upsert(table, s) ==
    IF \E i \in DOMAIN table : Conflicts(table[i], s)
    THEN [i \in DOMAIN table |-> IF Conflicts(table[i], s) THEN Merge(table[i], s) ELSE table[i]]
    ELSE Append(table, NewRow(s))

----------------------------------------------------------------------------
(* The earlier revision of the program (part_000): it keeps crashes only,  *)
(* looks up no weather, and its statement ends ON CONFLICT DO NOTHING.     *)

\* part_000 lines 59-77 and 86-88: the parameters $1..$8 of the statement.
LegacyStmt(incident, parsedTime) ==
    [source |-> "NCDOT",
     source_id |-> Itoa(incident.ID),
     event_type |-> "Vehicle Crash",
     address |-> incident.Location,
     latitude |-> incident.Latitude,
     longitude |-> incident.Longitude,
     timestamp |-> parsedTime,
     details |-> incident]

\* part_000 lines 79-84: the statement.  The columns it does not name are NULL.
LegacyInsert(table, s) ==
    IF \E i \in DOMAIN table : Conflicts(table[i], s) THEN table
    ELSE Append(table,
            [source |-> s.source, source_id |-> s.source_id,
             event_type |-> s.event_type, status |-> "active",
             address |-> s.address, latitude |-> s.latitude,
             longitude |-> s.longitude, timestamp |-> s.timestamp,
             details |-> s.details, problem_detail |-> NullString,
             weather_temp |-> NullInt32, weather_wind_speed |-> NullString,
             weather_forecast |-> NullString])

----------------------------------------------------------------------------
(* The environment of a run: what the feed and the weather service answer *)

\* The feed's answers: no answer, a body that does not decode into
\* []Incident, or a body that decodes into one of `batches`.
FeedResponses(statuses, batches) ==
    {[transport |-> "error", StatusCode |-> 0, json |-> FALSE, incidents |-> <<>>]}
    \cup {[transport |-> "ok", StatusCode |-> st, json |-> FALSE, incidents |-> <<>>] :
            st \in statuses}
    \cup {[transport |-> "ok", StatusCode |-> st, json |-> TRUE, incidents |-> b] :
            st \in statuses, b \in batches}

\* Lines 201-215: the startup conditions that end the run before the fetch.
Startups == {[dbReachable |-> d, dotURL |-> u] :
                d \in BOOLEAN, u \in {"", "https://feed.example/incidents"}}

StartupOK(su) == su.dbReachable /\ su.dotURL # ""

EnvPipeline ==
    [feeds |-> FeedResponses({200, 500}, SeqsUpTo(FeedSample, MaxBatch)),
     points |-> PointsResponses, hourlies |-> HourlyResponses, maxRuns |-> 1,
     binaries |-> {"main.go"}]

EnvStore ==
    [feeds |-> FeedResponses({200}, SeqsUpTo(Incidents, 1)),
     points |-> {PointsOK},
     hourlies |-> {HourlyOK(<<>>), HourlyOK(<<W1>>), HourlyOK(<<W2, W1>>)},
     maxRuns |-> MaxRuns, binaries |-> {"main.go"}]

\* Runs of the current program and of its earlier revision, in any order.
EnvMixed ==
    [feeds |-> FeedResponses({200}, SeqsUpTo(FeedSample \cup ConcSample, 1)),
     points |-> {PointsOK},
     hourlies |-> {HourlyOK(<<>>), HourlyOK(<<W1>>)},
     maxRuns |-> MaxRuns, binaries |-> {"main.go", "part_000"}]

EnvConc ==
    [feeds |-> FeedResponses({200}, SeqsUpTo(ConcSample, MaxConcBatch)),
     points |-> {PointsOK},
     hourlies |-> {HourlyOK(<<>>), HourlyOK(<<W1>>), HourlyOK(<<W2, W1>>)},
     maxRuns |-> 1,
     binaries |-> {"main.go"}]

----------------------------------------------------------------------------
(* main *)

ClockStart == UnixSeconds(2026, 11, 4, 9, 0, 0, 0)

\* Disabled vehicles are left out.
RelevantCrashOnly(incident) == incident.IncidentType = "Vehicle Crash"

\* Line 238: the relevance filter.
Relevant(incident) ==
    incident.IncidentType = "Vehicle Crash" \/ incident.IncidentType = "Disabled Vehicle"

NoHit == [existed |-> FALSE, identical |-> FALSE, hadWeather |-> FALSE]

\* What statement s meets in the table: a row of its key, the same
\* statement applied just before it, a row that carries weather values.
Hit(table, last, s) ==
    [existed |-> \E i \in DOMAIN table : Conflicts(table[i], s),
     identical |-> last = <<s>>,
     hadWeather |-> \E i \in DOMAIN table :
                        Conflicts(table[i], s) /\ table[i].weather_temp.Valid]

InitFor(procs, binaries) ==
    /\ rows = <<>>
    /\ now = ClockStart
    /\ binary \in [procs -> binaries]
    /\ pc = [p \in procs |-> "start"]
    /\ feedStatus = [p \in procs |-> 0]
    /\ allIncidents = [p \in procs |-> <<>>]
    /\ idx = [p \in procs |-> 0]
    /\ stmt = [p \in procs |-> <<>>]
    /\ points = [p \in procs |-> <<>>]
    /\ hourly = [p \in procs |-> <<>>]
    /\ weatherErr = [p \in procs |-> "nil"]
    /\ incidentsSaved = [p \in procs |-> 0]
    /\ runs = [p \in procs |-> 1]
    /\ weatherCalls = [p \in procs |-> 0]
    /\ storeCalls = [p \in procs |-> 0]
    /\ visited = [p \in procs |-> <<>>]
    /\ lastStmt = [k \in SourceIDs |-> <<>>]
    /\ lastHit = [k \in SourceIDs |-> NoHit]

\* Lines 192-235 when the run goes on: the store answers the ping, DOT_URL
\* is set, the feed answers and its body decodes.  The status code of the
\* answer is not read.
FetchOK(p, env) ==
    /\ pc[p] = "start"
    /\ \E resp \in env.feeds :
        /\ resp.transport = "ok" /\ resp.json
        /\ feedStatus' = [feedStatus EXCEPT ![p] = resp.StatusCode]
        /\ allIncidents' = [allIncidents EXCEPT ![p] = resp.incidents]
    /\ idx' = [idx EXCEPT ![p] = 1]
    /\ incidentsSaved' = [incidentsSaved EXCEPT ![p] = 0]
    /\ pc' = [pc EXCEPT ![p] = "loop"]
    /\ UNCHANGED <<binary, rows, now, stmt, points, hourly, weatherErr, runs, weatherCalls,
                   storeCalls, visited, lastStmt, lastHit>>

\* Lines 192-232 when the run ends in log.Fatal: the store does not answer,
\* DOT_URL is empty, the feed does not answer, or its body does not decode.
FetchFatal(p, env) ==
    /\ pc[p] = "start"
    /\ \E su \in Startups, resp \in env.feeds :
        /\ ~StartupOK(su) \/ resp.transport = "error" \/ ~resp.json
        /\ feedStatus' = [feedStatus EXCEPT ![p] =
                            IF StartupOK(su) THEN resp.StatusCode ELSE 0]
    /\ pc' = [pc EXCEPT ![p] = "fatal"]
    /\ UNCHANGED <<binary, rows, now, allIncidents, idx, stmt, points, hourly, weatherErr,
                   incidentsSaved, runs, weatherCalls, storeCalls, visited, lastStmt, lastHit>>

\* Lines 237-238 for a record the filter rejects.
Skip(p) ==
    /\ binary[p] = "main.go"
    /\ pc[p] = "loop"
    /\ idx[p] <= Len(allIncidents[p])
    /\ ~Relevant(allIncidents[p][idx[p]])
    /\ idx' = [idx EXCEPT ![p] = idx[p] + 1]
    /\ visited' = [visited EXCEPT ![p] = Append(visited[p], "skipped")]
    /\ UNCHANGED <<binary, rows, now, pc, feedStatus, allIncidents, stmt, points, hourly,
                   weatherErr, incidentsSaved, runs, weatherCalls, storeCalls, lastStmt, lastHit>>

\* Lines 237-239 and 129-183 for a record the filter accepts: the start
\* time is parsed, the weather is looked up, the parameters are built.
\* The clock the call reads is `clock`: the time of the last reading or later.
Prepare(p, env) ==
    /\ binary[p] = "main.go"
    /\ pc[p] = "loop"
    /\ idx[p] <= Len(allIncidents[p])
    /\ Relevant(allIncidents[p][idx[p]])
    /\ \E clock \in now..(ClockStart + MaxTicks), pr \in env.points, hr \in env.hourlies :
        LET incident == allIncidents[p][idx[p]]
            parsedTime == StartTimeOrNow(incident.StartTime, clock)
            weather == getWeatherForIncident(pr, hr)
        IN  /\ now' = clock
            /\ stmt' = [stmt EXCEPT ![p] = <<BuildStmt(incident, parsedTime, weather.data)>>]
            /\ points' = [points EXCEPT ![p] = <<pr>>]
            /\ hourly' = [hourly EXCEPT ![p] = IF weather.asked THEN <<hr>> ELSE <<>>]
            /\ weatherErr' = [weatherErr EXCEPT ![p] = weather.err]
    /\ weatherCalls' = [weatherCalls EXCEPT ![p] = weatherCalls[p] + 1]
    /\ pc' = [pc EXCEPT ![p] = "exec"]
    /\ UNCHANGED <<binary, rows, feedStatus, allIncidents, idx, incidentsSaved, runs,
                   storeCalls, visited, lastStmt, lastHit>>

\* Lines 185-189 and 239-243 when db.Exec succeeds.
ExecOK(p) ==
    /\ pc[p] = "exec"
    /\ rows' = Upsert(rows, stmt[p][1])
    /\ lastStmt' = [lastStmt EXCEPT ![stmt[p][1].source_id] = stmt[p]]
    /\ lastHit' = [lastHit EXCEPT ![stmt[p][1].source_id] =
                        Hit(rows, lastStmt[stmt[p][1].source_id], stmt[p][1])]
    /\ incidentsSaved' = [incidentsSaved EXCEPT ![p] = incidentsSaved[p] + 1]
    /\ storeCalls' = [storeCalls EXCEPT ![p] = storeCalls[p] + 1]
    /\ visited' = [visited EXCEPT ![p] = Append(visited[p], "saved")]
    /\ idx' = [idx EXCEPT ![p] = idx[p] + 1]
    /\ stmt' = [stmt EXCEPT ![p] = <<>>]
    /\ points' = [points EXCEPT ![p] = <<>>]
    /\ hourly' = [hourly EXCEPT ![p] = <<>>]
    /\ weatherErr' = [weatherErr EXCEPT ![p] = "nil"]
    /\ pc' = [pc EXCEPT ![p] = "loop"]
    /\ UNCHANGED <<binary, now, feedStatus, allIncidents, runs, weatherCalls>>

\* The loop ends at the first record the store rejects.
ExecFailAbort(p) ==
    /\ pc[p] = "exec"
    /\ storeCalls' = [storeCalls EXCEPT ![p] = storeCalls[p] + 1]
    /\ visited' = [visited EXCEPT ![p] = Append(visited[p], "failed")]
    /\ idx' = [idx EXCEPT ![p] = Len(allIncidents[p]) + 1]
    /\ stmt' = [stmt EXCEPT ![p] = <<>>]
    /\ points' = [points EXCEPT ![p] = <<>>]
    /\ hourly' = [hourly EXCEPT ![p] = <<>>]
    /\ weatherErr' = [weatherErr EXCEPT ![p] = "nil"]
    /\ pc' = [pc EXCEPT ![p] = "loop"]
    /\ UNCHANGED <<binary, rows, now, feedStatus, allIncidents, incidentsSaved, runs,
                   weatherCalls, lastStmt, lastHit>>

\* Lines 185-189 and 239-240 when db.Exec returns an error: the table is as
\* it was, the error is logged, the loop goes on.
ExecFail(p) ==
    /\ pc[p] = "exec"
    /\ storeCalls' = [storeCalls EXCEPT ![p] = storeCalls[p] + 1]
    /\ visited' = [visited EXCEPT ![p] = Append(visited[p], "failed")]
    /\ idx' = [idx EXCEPT ![p] = idx[p] + 1]
    /\ stmt' = [stmt EXCEPT ![p] = <<>>]
    /\ points' = [points EXCEPT ![p] = <<>>]
    /\ hourly' = [hourly EXCEPT ![p] = <<>>]
    /\ weatherErr' = [weatherErr EXCEPT ![p] = "nil"]
    /\ pc' = [pc EXCEPT ![p] = "loop"]
    /\ UNCHANGED <<binary, rows, now, feedStatus, allIncidents, incidentsSaved, runs,
                   weatherCalls, lastStmt, lastHit>>

\* part_000 lines 139-140 for a record that is no crash.
LegacySkip(p) ==
    /\ binary[p] = "part_000"
    /\ pc[p] = "loop"
    /\ idx[p] <= Len(allIncidents[p])
    /\ allIncidents[p][idx[p]].IncidentType # "Vehicle Crash"
    /\ idx' = [idx EXCEPT ![p] = idx[p] + 1]
    /\ visited' = [visited EXCEPT ![p] = Append(visited[p], "skipped")]
    /\ UNCHANGED <<binary, rows, now, pc, feedStatus, allIncidents, stmt, points, hourly,
                   weatherErr, incidentsSaved, runs, weatherCalls, storeCalls, lastStmt,
                   lastHit>>

\* part_000 lines 139-146 and 58-90 for a crash: the start time is parsed,
\* the statement is executed, and it succeeds (ok) or returns an error.
LegacySave(p) ==
    /\ binary[p] = "part_000"
    /\ pc[p] = "loop"
    /\ idx[p] <= Len(allIncidents[p])
    /\ allIncidents[p][idx[p]].IncidentType = "Vehicle Crash"
    /\ \E clock \in now..(ClockStart + MaxTicks), ok \in BOOLEAN :
        LET incident == allIncidents[p][idx[p]]
            s == LegacyStmt(incident, StartTimeOrNow(incident.StartTime, clock))
        IN  /\ now' = clock
            /\ rows' = IF ok THEN LegacyInsert(rows, s) ELSE rows
            /\ lastStmt' = IF ok THEN [lastStmt EXCEPT ![s.source_id] = <<s>>] ELSE lastStmt
            /\ lastHit' = IF ok THEN [lastHit EXCEPT ![s.source_id] =
                                        Hit(rows, lastStmt[s.source_id], s)]
                          ELSE lastHit
            /\ incidentsSaved' = [incidentsSaved EXCEPT ![p] =
                                    IF ok THEN incidentsSaved[p] + 1 ELSE incidentsSaved[p]]
            /\ visited' = [visited EXCEPT ![p] =
                            Append(visited[p], IF ok THEN "saved" ELSE "failed")]
    /\ storeCalls' = [storeCalls EXCEPT ![p] = storeCalls[p] + 1]
    /\ idx' = [idx EXCEPT ![p] = idx[p] + 1]
    /\ UNCHANGED <<binary, pc, feedStatus, allIncidents, stmt, points, hourly, weatherErr,
                   runs, weatherCalls>>

\* Line 247: the loop is over, the count is logged.
Finish(p) ==
    /\ pc[p] = "loop"
    /\ idx[p] > Len(allIncidents[p])
    /\ pc' = [pc EXCEPT ![p] = "done"]
    /\ UNCHANGED <<binary, rows, now, feedStatus, allIncidents, idx, stmt, points, hourly,
                   weatherErr, incidentsSaved, runs, weatherCalls, storeCalls, visited,
                   lastStmt, lastHit>>

\* The program is started again: a new process, the same table.
Restart(p, env) ==
    /\ pc[p] \in {"done", "fatal"}
    /\ runs[p] < env.maxRuns
    /\ \E b \in env.binaries : binary' = [binary EXCEPT ![p] = b]
    /\ runs' = [runs EXCEPT ![p] = runs[p] + 1]
    /\ pc' = [pc EXCEPT ![p] = "start"]
    /\ feedStatus' = [feedStatus EXCEPT ![p] = 0]
    /\ allIncidents' = [allIncidents EXCEPT ![p] = <<>>]
    /\ idx' = [idx EXCEPT ![p] = 0]
    /\ incidentsSaved' = [incidentsSaved EXCEPT ![p] = 0]
    /\ weatherCalls' = [weatherCalls EXCEPT ![p] = 0]
    /\ storeCalls' = [storeCalls EXCEPT ![p] = 0]
    /\ visited' = [visited EXCEPT ![p] = <<>>]
    /\ UNCHANGED <<rows, now, stmt, points, hourly, weatherErr, lastStmt, lastHit>>

----------------------------------------------------------------------------
(* Specifications *)

\* One run of one ingester over a feed of up to MaxBatch records.
Init == InitFor({1}, {"main.go"})

Next ==
    \/ \E p \in DOMAIN pc : FetchOK(p, EnvPipeline)
    \/ \E p \in DOMAIN pc : FetchFatal(p, EnvPipeline)
    \/ \E p \in DOMAIN pc : Skip(p)
    \/ \E p \in DOMAIN pc : Prepare(p, EnvPipeline)
    \/ \E p \in DOMAIN pc : ExecOK(p)
    \/ \E p \in DOMAIN pc : ExecFail(p)
    \/ \E p \in DOMAIN pc : Finish(p)

Spec == Init /\ [][Next]_vars

\* Up to MaxRuns runs of one ingester, each over a feed of at most one
\* record drawn from every combination of field values.
InitStore == InitFor({1}, {"main.go"})

NextStore ==
    \/ \E p \in DOMAIN pc : FetchOK(p, EnvStore)
    \/ \E p \in DOMAIN pc : FetchFatal(p, EnvStore)
    \/ \E p \in DOMAIN pc : Skip(p)
    \/ \E p \in DOMAIN pc : Prepare(p, EnvStore)
    \/ \E p \in DOMAIN pc : ExecOK(p)
    \/ \E p \in DOMAIN pc : ExecFail(p)
    \/ \E p \in DOMAIN pc : Finish(p)
    \/ \E p \in DOMAIN pc : Restart(p, EnvStore)

SpecStore == InitStore /\ [][NextStore]_vars

\* Two ingesters running at once against the same table.
InitConc == InitFor({1, 2}, {"main.go"})

NextConc ==
    \/ \E p \in DOMAIN pc : FetchOK(p, EnvConc)
    \/ \E p \in DOMAIN pc : FetchFatal(p, EnvConc)
    \/ \E p \in DOMAIN pc : Skip(p)
    \/ \E p \in DOMAIN pc : Prepare(p, EnvConc)
    \/ \E p \in DOMAIN pc : ExecOK(p)
    \/ \E p \in DOMAIN pc : ExecFail(p)
    \/ \E p \in DOMAIN pc : Finish(p)

SpecConc == InitConc /\ [][NextConc]_vars

\* Runs of the current program and of its earlier revision against the
\* same table, one after the other.
InitMixed == InitFor({1}, {"main.go", "part_000"})

NextMixed ==
    \/ \E p \in DOMAIN pc : FetchOK(p, EnvMixed)
    \/ \E p \in DOMAIN pc : FetchFatal(p, EnvMixed)
    \/ \E p \in DOMAIN pc : Skip(p)
    \/ \E p \in DOMAIN pc : Prepare(p, EnvMixed)
    \/ \E p \in DOMAIN pc : ExecOK(p)
    \/ \E p \in DOMAIN pc : ExecFail(p)
    \/ \E p \in DOMAIN pc : LegacySkip(p)
    \/ \E p \in DOMAIN pc : LegacySave(p)
    \/ \E p \in DOMAIN pc : Finish(p)
    \/ \E p \in DOMAIN pc : Restart(p, EnvMixed)

SpecMixed == InitMixed /\ [][NextMixed]_vars

----------------------------------------------------------------------------
(* Properties *)

AllowSet == {"Vehicle Crash", "Disabled Vehicle"}

Count(seq, v) == Cardinality({i \in DOMAIN seq : seq[i] = v})

\* The rows of the table whose key is ("NCDOT", k).
RowsOf(k) == {i \in DOMAIN rows : rows[i].source = "NCDOT" /\ rows[i].source_id = k}

\* Process p is taking the step in which db.Exec succeeds.
ExecSucceeds(p) == pc[p] = "exec" /\ incidentsSaved'[p] = incidentsSaved[p] + 1

C2_MergeKeepsIdentity ==
    [][\A p \in DOMAIN pc :
        ExecSucceeds(p) =>
            \A i \in DOMAIN rows :
                (rows[i].source = stmt[p][1].source
                    /\ rows[i].source_id = stmt[p][1].source_id)
                => /\ Len(rows') = Len(rows)
                   /\ rows'[i] =
                        [source |-> rows[i].source,
                         source_id |-> rows[i].source_id,
                         event_type |-> rows[i].event_type,
                         address |-> rows[i].address,
                         latitude |-> rows[i].latitude,
                         longitude |-> rows[i].longitude,
                         timestamp |-> rows[i].timestamp,
                         status |-> "active",
                         details |-> stmt[p][1].details,
                         problem_detail |-> stmt[p][1].problem_detail,
                         weather_temp |-> stmt[p][1].weather_temp,
                         weather_wind_speed |-> stmt[p][1].weather_wind_speed,
                         weather_forecast |-> stmt[p][1].weather_forecast]]_vars

\* The second write of a key carried another event type, address, position
\* and timestamp than the row has, and the row has the second write's
\* details, problem detail and weather.
C2_Witness ==
    \E k \in SourceIDs :
        /\ lastHit[k].existed
        /\ \E i \in RowsOf(k) :
            LET s == lastStmt[k][1]
            IN  /\ rows[i].event_type # s.event_type
                /\ rows[i].address # s.address
                /\ rows[i].latitude # s.latitude
                /\ rows[i].longitude # s.longitude
                /\ rows[i].timestamp # s.timestamp
                /\ rows[i].details = s.details
                /\ rows[i].problem_detail = s.problem_detail
                /\ rows[i].weather_temp = s.weather_temp
                /\ rows[i].status = "active"

\* C3: a successful upsert whose parameters are those of the statement
\* applied last for the same key leaves the table as that first upsert
\* left it, with exactly one row of the key.
C3_Idempotent ==
    [][\A p \in DOMAIN pc :
        (ExecSucceeds(p) /\ lastStmt[stmt[p][1].source_id] = stmt[p])
            => /\ rows' = rows
               /\ Cardinality({i \in DOMAIN rows' :
                                rows'[i].source = stmt[p][1].source
                                /\ rows'[i].source_id = stmt[p][1].source_id}) = 1]_vars

\* The same statement has been applied twice in a row for a key; the key
\* has one row.
C3_Witness ==
    \E k \in SourceIDs : lastHit[k].identical /\ Cardinality(RowsOf(k)) = 1

\* C4: with two ingesters interleaved at will, a key for which the store
\* has applied a statement has exactly one row, whose details, status,
\* problem_detail and weather columns are those of the statement applied
\* last; a key for which it applied none has no row.
C4_LastAppliedWins ==
    \A k \in SourceIDs :
        IF lastStmt[k] = <<>> THEN RowsOf(k) = {}
        ELSE /\ Cardinality(RowsOf(k)) = 1
             /\ \A i \in RowsOf(k) :
                    /\ rows[i].details = lastStmt[k][1].details
                    /\ rows[i].status = "active"
                    /\ rows[i].problem_detail = lastStmt[k][1].problem_detail
                    /\ rows[i].weather_temp = lastStmt[k][1].weather_temp
                    /\ rows[i].weather_wind_speed = lastStmt[k][1].weather_wind_speed
                    /\ rows[i].weather_forecast = lastStmt[k][1].weather_forecast

\* Both ingesters have finished, each has saved its sighting of incident 1,
\* the sightings differ, and the table holds one row.
C4_Witness ==
    /\ DOMAIN pc = {1, 2}
    /\ \A p \in DOMAIN pc : pc[p] = "done" /\ visited[p] = <<"saved">>
    /\ allIncidents[1] # allIncidents[2]
    /\ Len(rows) = 1
    /\ lastHit[rows[1].source_id].existed

\* C5: a store failure does not stop the batch.  The loop has dealt with
\* exactly the records before its position, one entry each, and with all
\* of them when the run is done; every relevant record has had its upsert,
\* saved or failed; a saved one has a row; the success counter is the
\* number of saved records; the run never turns fatal once the loop runs.
C5_FailureIsolated ==
    \A p \in DOMAIN pc :
        LET v == visited[p]
            b == allIncidents[p]
        IN  /\ pc[p] \in {"loop", "exec", "done"} => Len(v) = idx[p] - 1 /\ Len(v) <= Len(b)
            /\ pc[p] = "done" => Len(v) = Len(b)
            /\ \A i \in DOMAIN v :
                b[i].IncidentType \in AllowSet
                    => /\ v[i] \in {"saved", "failed"}
                       /\ v[i] = "saved" =>
                            \E r \in DOMAIN rows : rows[r].source_id = Itoa(b[i].ID)
            /\ incidentsSaved[p] = Count(v, "saved")
            /\ v # <<>> => pc[p] # "fatal"

\* Three relevant records, the store rejected the second: the first and
\* the third are saved and the count is 2.
C5_Witness ==
    /\ pc[1] = "done"
    /\ \A i \in DOMAIN allIncidents[1] : allIncidents[1][i].IncidentType \in AllowSet
    /\ visited[1] = <<"saved", "failed", "saved">>
    /\ incidentsSaved[1] = 2
    /\ Len(rows) = 2

\* C6: when the weather lookup of the current record failed at either
\* stage (transport error, status outside 2xx, body that does not decode,
\* no forecast URL, no periods), the statement built for the record has
\* the three weather parameters NULL and details.weather null, carries the
\* record, and is about to be executed; a lookup error never leaves the
\* record anywhere but before its db.Exec.
C6_WeatherAbsentTolerated ==
    \A p \in DOMAIN pc :
        /\ weatherErr[p] # "nil" => pc[p] = "exec"
        /\ pc[p] = "exec" =>
            LET s == stmt[p][1]
                pr == points[p][1]
                stage1 == \/ pr.transport = "error"
                          \/ pr.StatusCode \notin 200..299
                          \/ ~pr.json
                          \/ pr.ForecastHourly = ""
                stage2 == /\ hourly[p] # <<>>
                          /\ \/ hourly[p][1].transport = "error"
                             \/ hourly[p][1].StatusCode \notin 200..299
                             \/ ~hourly[p][1].json
                             \/ hourly[p][1].Periods = <<>>
            IN  (stage1 \/ stage2) =>
                    /\ ~s.weather_temp.Valid
                    /\ ~s.weather_wind_speed.Valid
                    /\ ~s.weather_forecast.Valid
                    /\ s.details.weather = <<>>
                    /\ s.details.raw_incident = allIncidents[p][idx[p]]

\* The second request was answered 503 with a body that holds a period:
\* the statement is built, without weather.
C6_Witness ==
    /\ pc[1] = "exec"
    /\ hourly[1] # <<>>
    /\ hourly[1][1].StatusCode = 503
    /\ hourly[1][1].Periods # <<>>
    /\ ~stmt[1][1].weather_temp.Valid
    /\ stmt[1][1].details.weather = <<>>

\* C7: the loop skips a record exactly when its type is outside
\* {"Vehicle Crash", "Disabled Vehicle"}; a skipped record causes no
\* weather lookup, no db.Exec, no row and no count; every other record
\* causes one lookup and one db.Exec.
C7_RelevanceFilter ==
    \A p \in DOMAIN pc :
        LET v == visited[p]
            b == allIncidents[p]
        IN  /\ \A i \in DOMAIN v :
                (v[i] = "skipped") <=> (b[i].IncidentType \notin AllowSet)
            /\ storeCalls[p] = Len(v) - Count(v, "skipped")
            /\ weatherCalls[p] = storeCalls[p] + (IF pc[p] = "exec" THEN 1 ELSE 0)
            /\ incidentsSaved[p] <= storeCalls[p]
            /\ \A r \in DOMAIN rows :
                \E i \in DOMAIN v :
                    /\ v[i] = "saved"
                    /\ b[i].IncidentType \in AllowSet
                    /\ rows[r].details.raw_incident = b[i]

\* A run over a road closure, a relevant record and another road closure:
\* one lookup, one db.Exec, one row.
C7_Witness ==
    /\ pc[1] = "done"
    /\ visited[1] = <<"skipped", "saved", "skipped">>
    /\ weatherCalls[1] = 1
    /\ storeCalls[1] = 1
    /\ incidentsSaved[1] = 1
    /\ Len(rows) = 1

\* C8: a feed response whose status is outside 2xx ends the run before
\* any record is filtered, enriched or written, whatever its body holds:
\* no record visited, no weather lookup, no db.Exec, the table unchanged.
C8_BadFeedStatusIsFatal ==
    \A p \in DOMAIN pc :
        (feedStatus[p] # 0 /\ feedStatus[p] \notin 200..299)
            => /\ visited[p] = <<>>
               /\ pc[p] # "exec"
               /\ weatherCalls[p] = 0
               /\ storeCalls[p] = 0
               /\ rows = <<>>

\* C9: the timestamp parameter of the statement built for a record is the
\* clock reading of that call when the start string is "not-a-date", and
\* 2024-05-01T10:00:00Z (1714557600) when the start string is that time;
\* a relevant record with an unparseable start is not skipped; the row a
\* record creates carries that timestamp.
C9_TimestampFallback ==
    /\ \A p \in DOMAIN pc :
        /\ pc[p] = "exec" =>
            /\ allIncidents[p][idx[p]].StartTime = StartBad
                => stmt[p][1].timestamp = now
            /\ allIncidents[p][idx[p]].StartTime = StartZ
                => stmt[p][1].timestamp = 1714557600
        /\ \A i \in DOMAIN visited[p] :
            (allIncidents[p][i].StartTime = StartBad
                /\ allIncidents[p][i].IncidentType \in AllowSet)
            => visited[p][i] \in {"saved", "failed"}
    /\ \A r \in DOMAIN rows :
        /\ rows[r].details.raw_incident.StartTime = StartBad
            => rows[r].timestamp \in ClockStart..now
        /\ rows[r].details.raw_incident.StartTime = StartZ
            => rows[r].timestamp = 1714557600

\* A record with start "not-a-date" was processed one second after the
\* run began and is in the table with that time.
C9_Witness ==
    \E r \in DOMAIN rows :
        /\ rows[r].details.raw_incident.StartTime = StartBad
        /\ rows[r].timestamp = ClockStart + 1
        /\ \E i \in DOMAIN visited[1] :
            visited[1][i] = "saved" /\ allIncidents[1][i].StartTime = StartBad

\* C10: every row carries the weather columns and the details of the
\* statement the store applied last for its key; the three weather columns
\* are NULL together, and exactly when details.weather is null.
C10_LatestWeatherWins ==
    \A i \in DOMAIN rows :
        LET r == rows[i]
            last == lastStmt[r.source_id]
        IN  /\ last # <<>>
            /\ r.weather_temp = last[1].weather_temp
            /\ r.weather_wind_speed = last[1].weather_wind_speed
            /\ r.weather_forecast = last[1].weather_forecast
            /\ r.details = last[1].details
            /\ r.weather_temp.Valid = r.weather_wind_speed.Valid
            /\ r.weather_temp.Valid = r.weather_forecast.Valid
            /\ r.weather_temp.Valid <=> (r.details.weather # <<>>)

\* A row that carried weather values was written again by a run whose
\* lookup found none: its weather columns are NULL.
C10_Witness ==
    \E k \in SourceIDs :
        /\ lastHit[k].hadWeather
        /\ \E i \in RowsOf(k) :
            /\ ~rows[i].weather_temp.Valid
            /\ ~rows[i].weather_wind_speed.Valid
            /\ ~rows[i].weather_forecast.Valid
            /\ rows[i].details.weather = <<>>

====
